---- MODULE Spec2Model ----
(***************************************************************************)
(* MaterGui API (src/main.py, src/schemas.py): the record admission        *)
(* pipeline (POST /patients, /pregnancies, /visits, /appointments,         *)
(* /alerts) and the aggregate reporter (GET /stats).                       *)
(*                                                                         *)
(* Conventions.  A Python string is a sequence of one-character strings.   *)
(* An Optional[T] field, or a field the caller may leave out, is a set     *)
(* with at most one element: {} is None / absent.  An ObjectId is the      *)
(* natural number its 12 bytes spell; str(ObjectId) is OidLen lower-case   *)
(* hexadecimal digits.  Request handlers are plain `def`s, which the       *)
(* framework runs concurrently on a thread pool: a handler that makes two  *)
(* store round-trips (lookup, then insert) is two actions.                 *)
(***************************************************************************)
EXTENDS Integers, Sequences, FiniteSets, TLC

VARIABLES
    dbSet,        \* database.db is not None (fixed at import time)
    utcDate,      \* datetime.utcnow().date()
    patient,      \* collection "patient": a set of documents
    pregnancy,    \* collection "pregnancy"
    visit,        \* collection "visit"
    appointment,  \* collection "appointment"
    alert,        \* collection "alert"
    nextOid,      \* the next ObjectId the store hands out
    inflight,     \* requests between their lookup and their insert
    nreq,         \* requests received so far
    resp,         \* the last response sent by a mutating endpoint
    snapshot,     \* the store as GET /stats reads it
    today,        \* date.today() of the server, as [y, m]
    stats         \* the last response of GET /stats

vars == <<dbSet, utcDate, patient, pregnancy, visit, appointment, alert,
          nextOid, inflight, nreq, resp, snapshot, today, stats>>

admissionVars == <<dbSet, utcDate, patient, pregnancy, visit, appointment,
                   alert, nextOid, inflight, nreq, resp>>

statsVars == <<snapshot, today, stats>>

collections == <<patient, pregnancy, visit, appointment, alert>>

-----------------------------------------------------------------------------
(* Bounds of the model *)

MaxRequests == 3

MaxInFlight == 2

FirstOid == 10

MaxCount == 1

MaxFaults == 1

MaxPregnancies == 201

(* Program constants *)

OidLen == 24

RandBound == 1000000

StatsLimit == 200

-----------------------------------------------------------------------------
(* Strings and numbers *)

HexLower == <<"0","1","2","3","4","5","6","7","8","9","a","b","c","d","e","f">>

HexUpper == <<"0","1","2","3","4","5","6","7","8","9","A","B","C","D","E","F">>

DecDigit == <<"0","1","2","3","4","5","6","7","8","9">>

IsDecDigit(c) == \E i \in 1..10 : DecDigit[i] = c

\* the value of one hexadecimal digit, -1 when c is none (bytes.fromhex
\* accepts both letter cases)
HexVal(c) ==
    LET I == {i \in 1..16 : HexLower[i] = c \/ HexUpper[i] = c}
    IN  IF I = {} THEN -1 ELSE (CHOOSE i \in I : TRUE) - 1

RECURSIVE ToHex(_, _)
ToHex(n, k) ==
    IF k = 0 THEN <<>>
    ELSE Append(ToHex(n \div 16, k - 1), HexLower[(n % 16) + 1])

RECURSIVE FromHex(_)
FromHex(s) ==
    IF s = <<>> THEN 0
    ELSE 16 * FromHex(SubSeq(s, 1, Len(s) - 1)) + HexVal(s[Len(s)])

\* str(ObjectId): 24 lower-case hexadecimal digits
OidStr(oid) == ToHex(oid, OidLen)

UpperCase(s) ==
    [i \in 1..Len(s) |->
        LET I == {j \in 1..16 : HexLower[j] = s[i]}
        IN  IF I = {} THEN s[i] ELSE HexUpper[CHOOSE j \in I : TRUE]]

\* bson.ObjectId(s) raises InvalidId unless s is 24 hexadecimal digits
ObjectIdValid(s) ==
    /\ Len(s) = OidLen
    /\ \A i \in 1..Len(s) : HexVal(s[i]) >= 0

ObjectId(s) == FromHex(s)

RECURSIVE DecStr(_)
DecStr(n) ==
    IF n < 10 THEN <<DecDigit[n + 1]>>
    ELSE Append(DecStr(n \div 10), DecDigit[(n % 10) + 1])

\* the format specifications %Y / %m / %d and :06d : zero-padded to a
\* minimum width, never truncated
ZeroPad(s, w) ==
    IF Len(s) >= w THEN s ELSE [i \in 1..(w - Len(s)) |-> "0"] \o s

strftime_Ymd(d) ==
    ZeroPad(DecStr(d.y), 4) \o ZeroPad(DecStr(d.m), 2) \o ZeroPad(DecStr(d.d), 2)

generate_matergui_id_unpadded(date, r) ==
    <<"M","G","U","-">> \o strftime_Ymd(date) \o <<"-">> \o DecStr(r)

\* src/main.py generate_matergui_id; r is the value of randbelow(10**6)
generate_matergui_id(date, r) ==
    <<"M","G","U","-">> \o strftime_Ymd(date) \o <<"-">> \o ZeroPad(DecStr(r), 6)

-----------------------------------------------------------------------------
(* Inputs *)

Calendar == <<[y |-> 2024, m |-> 3, d |-> 15], [y |-> 2024, m |-> 3, d |-> 16]>>

RandValues == {42, RandBound - 1}

\* an ObjectId the store never hands out within the bounds
UnknownOid == FirstOid + 245

\* identifier strings a caller may send: the ids of the first two
\* documents, one of them also in upper case, an id no document has, and
\* two strings ObjectId() refuses
RefStrings ==
    { OidStr(FirstOid), UpperCase(OidStr(FirstOid)), OidStr(FirstOid + 1),
      OidStr(UnknownOid), <<"a","b","c">>, [i \in 1..OidLen |-> "g"] }

PatientPayloads ==
    [ first_name  : {{"Aissatou"}},
      last_name   : {{}, {"Camara"}},
      matergui_id : {{}, {<<>>}, {<<"X","-","1">>}} ]

\* every reference with the schema's defaults, and one reference with
\* parity (ge=0) and gravida (ge=1) below their bounds
PregnancyPayloads ==
    { [patient_id |-> r, parity |-> {}, gravida |-> {1}] :
        r \in {{}} \cup {{s} : s \in RefStrings} }
    \cup { [patient_id |-> {OidStr(FirstOid)}, parity |-> {-1}, gravida |-> {1}],
           [patient_id |-> {OidStr(FirstOid)}, parity |-> {0}, gravida |-> {0}] }

NoVitals ==
    [ blood_pressure_systolic  |-> {},
      blood_pressure_diastolic |-> {},
      weight_kg                |-> {},
      fundal_height_cm         |-> {},
      foetal_heart_rate        |-> {} ]

\* vitals with at most one measurement present: each one just below and
\* just above its range, and the systolic pressure at both ends of it
VitalsInputs ==
    {NoVitals}
    \cup {[NoVitals EXCEPT !.blood_pressure_systolic = {v}] : v \in {49, 50, 250, 251}}
    \cup {[NoVitals EXCEPT !.blood_pressure_diastolic = {v}] : v \in {29, 151}}
    \cup {[NoVitals EXCEPT !.weight_kg = {v}] : v \in {19, 251}}
    \cup {[NoVitals EXCEPT !.fundal_height_cm = {v}] : v \in {-1, 61}}
    \cup {[NoVitals EXCEPT !.foetal_heart_rate = {v}] : v \in {59, 201}}

\* every reference without vitals, and every vitals record with the id of
\* the second document
VisitPayloads ==
    { [pregnancy_id |-> r, vitals |-> NoVitals] :
        r \in {{}} \cup {{s} : s \in RefStrings} }
    \cup { [pregnancy_id |-> {OidStr(FirstOid + 1)}, vitals |-> v] :
        v \in VitalsInputs }

\* appointments and alerts: a valid payload (its patient_id is not
\* checked), one without a required field, one outside an enumeration
AppointmentPayloads ==
    { [patient_id |-> {OidStr(UnknownOid)}, appointment_date |-> {"2024-03-20T09:00"},
       status |-> {}],
      [patient_id |-> {OidStr(UnknownOid)}, appointment_date |-> {}, status |-> {}],
      [patient_id |-> {OidStr(UnknownOid)}, appointment_date |-> {"2024-03-20T09:00"},
       status |-> {"reporte"}] }

AlertPayloads ==
    { [patient_id |-> {OidStr(UnknownOid)}, type |-> {}, message |-> {"rappel CPN"}],
      [patient_id |-> {OidStr(UnknownOid)}, type |-> {}, message |-> {}],
      [patient_id |-> {OidStr(UnknownOid)}, type |-> {"info"},
       message |-> {"rappel CPN"}] }

-----------------------------------------------------------------------------
(* src/schemas.py: what the framework's validation of the request body     *)
(* accepts; it runs before the handler is called                           *)

PatientValid(p) == p.first_name # {} /\ p.last_name # {}

PregnancyValid(p) ==
    /\ p.patient_id # {}
    /\ \A v \in p.parity : v >= 0
    /\ \A v \in p.gravida : v >= 1

VisitValid_NoUpperLimit(p) ==
    /\ p.pregnancy_id # {}
    /\ \A v \in p.vitals.blood_pressure_systolic : v >= 50
    /\ \A v \in p.vitals.blood_pressure_diastolic : v >= 30
    /\ \A v \in p.vitals.weight_kg : v >= 20
    /\ \A v \in p.vitals.fundal_height_cm : v >= 0
    /\ \A v \in p.vitals.foetal_heart_rate : v >= 60

VisitValid(p) ==
    /\ p.pregnancy_id # {}
    /\ \A v \in p.vitals.blood_pressure_systolic : v >= 50 /\ v <= 250
    /\ \A v \in p.vitals.blood_pressure_diastolic : v >= 30 /\ v <= 150
    /\ \A v \in p.vitals.weight_kg : v >= 20 /\ v <= 250
    /\ \A v \in p.vitals.fundal_height_cm : v >= 0 /\ v <= 60
    /\ \A v \in p.vitals.foetal_heart_rate : v >= 60 /\ v <= 200

AppointmentValid(p) ==
    /\ p.patient_id # {}
    /\ p.appointment_date # {}
    /\ p.status \subseteq {"planifie", "honore", "annule", "manque"}

AlertValid(p) ==
    /\ p.patient_id # {}
    /\ p.message # {}
    /\ p.type \subseteq {"urgence", "rappel", "risque"}

-----------------------------------------------------------------------------------------------------------------------------------------------------
(* Requests.  A request is a record: its endpoint, its payload, the        *)
(* statements of its handler still to run, the statements run so far, and  *)
(* its status (0 while the handler runs, then the HTTP status sent).       *)

S(do, coll, exc) == [do |-> do, coll |-> coll, except |-> exc]

\* src/main.py create_patient: ensure_db(); model_dump and the public id;
\* create_document("patient", data)
create_patient_steps ==
    << S("ensure_db", "", 500), S("assign_id", "", 500),
       S("insert", "patient", 500) >>

create_pregnancy_steps_unchecked ==
    << S("ensure_db", "", 500), S("parse", "", 400),
       S("lookup", "patient", 500), S("insert", "pregnancy", 500) >>

\* src/main.py create_pregnancy: ObjectId() alone is inside the try, so a
\* find_one that raises is an unhandled exception (500)
create_pregnancy_steps ==
    << S("ensure_db", "", 500), S("parse", "", 400),
       S("lookup", "patient", 500), S("check_found", "", 404),
       S("insert", "pregnancy", 500) >>

create_visit_steps_insert_first ==
    << S("ensure_db", "", 500), S("insert", "visit", 500), S("parse", "", 400),
       S("lookup", "pregnancy", 400), S("check_found", "", 404) >>

create_visit_steps_unchecked ==
    << S("ensure_db", "", 500), S("parse", "", 400),
       S("lookup", "pregnancy", 400), S("insert", "visit", 500) >>

\* src/main.py create_visit: ObjectId() and find_one are both inside the
\* try, whose handler answers 400 "pregnancy_id invalide"
create_visit_steps ==
    << S("ensure_db", "", 500), S("parse", "", 400),
       S("lookup", "pregnancy", 400), S("check_found", "", 404),
       S("insert", "visit", 500) >>

create_appointment_steps ==
    << S("ensure_db", "", 500), S("insert", "appointment", 500) >>

create_alert_steps ==
    << S("ensure_db", "", 500), S("insert", "alert", 500) >>

Steps(op) ==
    CASE op = "create_patient"     -> create_patient_steps
      [] op = "create_pregnancy"   -> create_pregnancy_steps
      [] op = "create_visit"       -> create_visit_steps
      [] op = "create_appointment" -> create_appointment_steps
      [] op = "create_alert"       -> create_alert_steps

Valid(op, p) ==
    CASE op = "create_patient"     -> PatientValid(p)
      [] op = "create_pregnancy"   -> PregnancyValid(p)
      [] op = "create_visit"       -> VisitValid(p)
      [] op = "create_appointment" -> AppointmentValid(p)
      [] op = "create_alert"       -> AlertValid(p)

\* the parent reference of a pregnancy or visit payload, as the caller
\* sent it
Ref(op, p) ==
    IF op = "create_visit" THEN p.pregnancy_id ELSE p.patient_id

RefOf(op, p) == CHOOSE s \in Ref(op, p) : TRUE

Coll(name) ==
    CASE name = "patient"     -> patient
      [] name = "pregnancy"   -> pregnancy
      [] name = "visit"       -> visit
      [] name = "appointment" -> appointment
      [] name = "alert"       -> alert

NoRequest ==
    [rid |-> 0, op |-> "none", payload |-> {}, rest |-> <<>>, trace |-> <<>>,
     status |-> 0, raised |-> FALSE, oid |-> {}, found |-> {}, data |-> {},
     id |-> {}, wrote |-> ""]

NewRequest(rid, op, p) ==
    [NoRequest EXCEPT !.rid = rid, !.op = op, !.payload = p, !.rest = Steps(op)]

\* pymongo find_one({"_id": oid}): the matching documents (none or one)
find_one(coll, oid) == {d \in coll : d._id = oid}

ensure_db_missing == TRUE

\* src/main.py ensure_db: TRUE when it returns, FALSE when it raises 500
ensure_db == dbSet

\* a store call raises when the driver fails (fault), and `db[...]` itself
\* raises when db is None
StoreRaises(fault) == fault \/ ~dbSet

\* the document a handler hands to create_document
Document(q) ==
    CASE q.op = "create_patient" ->
           [first_name |-> q.payload.first_name, last_name |-> q.payload.last_name,
            matergui_id |-> CHOOSE m \in q.data : TRUE]
      [] q.op = "create_pregnancy" ->
           [patient_id |-> RefOf(q.op, q.payload), parity |-> q.payload.parity,
            gravida |-> q.payload.gravida]
      [] q.op = "create_visit" ->
           [pregnancy_id |-> RefOf(q.op, q.payload), vitals |-> q.payload.vitals]
      [] q.op = "create_appointment" ->
           [patient_id |-> RefOf(q.op, q.payload),
            appointment_date |-> q.payload.appointment_date,
            status |-> q.payload.status]
      [] q.op = "create_alert" ->
           [patient_id |-> RefOf(q.op, q.payload), type |-> q.payload.type,
            message |-> q.payload.message]

create_document_upsert(coll, data, oid) ==
    IF \E d \in coll : \A f \in DOMAIN data : d[f] = data[f]
    THEN coll
    ELSE coll \cup {[_id |-> oid] @@ data}

\* database.create_document: one insert_one of the record; the store
\* assigns the document a fresh _id
create_document(coll, data, oid) == coll \cup {[_id |-> oid] @@ data}

\* one statement of a handler, run by request q; r is the value randbelow
\* returns, fault whether the store call of this statement raises
Exec(s, q, r, fault) ==
    LET t == [q EXCEPT !.trace = Append(@, s.do)]
        fail(st, exc) == [t EXCEPT !.status = st, !.raised = exc]
    IN  CASE s.do = "ensure_db" ->
               IF ensure_db THEN t ELSE fail(500, FALSE)
          [] s.do = "assign_id" ->
               [t EXCEPT !.data =
                    IF q.payload.matergui_id \in {{}, {<<>>}}
                    THEN {generate_matergui_id(utcDate, r)}
                    ELSE q.payload.matergui_id]
          [] s.do = "parse" ->
               IF ObjectIdValid(RefOf(q.op, q.payload))
               THEN [t EXCEPT !.oid = {ObjectId(RefOf(q.op, q.payload))}]
               ELSE fail(s.except, FALSE)
          [] s.do = "lookup" ->
               IF StoreRaises(fault) THEN fail(s.except, TRUE)
               ELSE [t EXCEPT !.found =
                        UNION {find_one(Coll(s.coll), o) : o \in q.oid}]
          [] s.do = "check_found" ->
               IF q.found = {} THEN fail(s.except, FALSE) ELSE t
          [] s.do = "insert" ->
               IF StoreRaises(fault) THEN fail(s.except, TRUE)
               ELSE [t EXCEPT !.id = {OidStr(nextOid)}, !.wrote = s.coll]

IsStoreCall(s) == s.do \in {"lookup", "insert"}

\* the handler runs on from q.rest: its statements up to, and including,
\* one store call and the statements after it that touch no store
RECURSIVE Run(_, _, _, _)
Run(q, called, r, fault) ==
    IF q.rest = <<>> THEN [q EXCEPT !.status = 200]
    ELSE LET s == Head(q.rest) IN
         IF IsStoreCall(s) /\ called THEN q
         ELSE LET t == Exec(s, q, r, fault) IN
              IF t.status # 0 THEN t
              ELSE Run([t EXCEPT !.rest = Tail(q.rest)],
                       called \/ IsStoreCall(s), r, fault)

\* the effect of a run that ended in request t: the insert it made, and
\* either the response or the request parked until its next store call
Commit(q, t) ==
    /\ patient' = IF t.wrote = "patient"
                  THEN create_document(patient, Document(t), nextOid) ELSE patient
    /\ pregnancy' = IF t.wrote = "pregnancy"
                    THEN create_document(pregnancy, Document(t), nextOid) ELSE pregnancy
    /\ visit' = IF t.wrote = "visit"
                THEN create_document(visit, Document(t), nextOid) ELSE visit
    /\ appointment' = IF t.wrote = "appointment"
                      THEN create_document(appointment, Document(t), nextOid)
                      ELSE appointment
    /\ alert' = IF t.wrote = "alert"
                THEN create_document(alert, Document(t), nextOid) ELSE alert
    /\ nextOid' = IF t.wrote # "" THEN nextOid + 1 ELSE nextOid
    /\ IF t.status # 0
       THEN /\ resp' = [t EXCEPT !.wrote = ""]
            /\ inflight' = inflight \ {q}
       ELSE /\ resp' = resp
            /\ inflight' = (inflight \ {q}) \cup {[t EXCEPT !.wrote = ""]}

\* the framework validates the body against the handler's parameter type
\* (422 on failure) and only then calls the handler
Receive(op, p, r, fault) ==
    /\ nreq < MaxRequests
    /\ Cardinality(inflight) < MaxInFlight
    /\ nreq' = nreq + 1
    /\ LET q == NewRequest(nreq + 1, op, p) IN
       IF ~Valid(op, p)
       THEN Commit(q, [q EXCEPT !.trace = <<"validate">>, !.status = 422])
       ELSE Commit(q, Run([q EXCEPT !.trace = <<"validate">>], FALSE, r, fault))
    /\ UNCHANGED <<dbSet, utcDate, statsVars>>

-----------------------------------------------------------------------------
(* GET /stats.  It reads the store and writes nothing, so it is checked on *)
(* its own: the store is any content within the bounds, given as the       *)
(* number of documents of each kind (snapshot), and the request is the     *)
(* one action.                                                             *)

Months == <<[y |-> 2024, m |-> 3], [y |-> 2024, m |-> 4]>>

\* values of a pregnancy document's expected_due_date: absent, a date, or
\* a datetime (what the driver returns for a stored date-time)
EddMarch == {[kind |-> "date", y |-> 2024, m |-> 3, hour |-> 0]}

EddApril == {[kind |-> "date", y |-> 2024, m |-> 4, hour |-> 0]}

EddValues ==
    { {}, EddMarch, EddApril,
      {[kind |-> "datetime", y |-> 2024, m |-> 3, hour |-> 23]},
      {[kind |-> "date", y |-> 2025, m |-> 3, hour |-> 0]} }

Regions == { {}, {"Conakry"} }

CountedCollections == {"patient", "visit", "appointment", "alert"}

RECURSIVE SumOver(_, _)
SumOver(f, D) ==
    IF D = {} THEN 0
    ELSE LET x == CHOOSE x \in D : TRUE IN f[x] + SumOver(f, D \ {x})

Total(bag) == SumOver(bag, DOMAIN bag)

EmptyStore ==
    [ counts     |-> [c \in CountedCollections |-> 0],
      pregs      |-> [e \in EddValues |-> 0],
      facilities |-> [r \in Regions |-> 0] ]

\* stores of a few documents: every combination of counts and facilities
\* with no pregnancy or one of each kind, and every small pregnancy
\* collection
SmallStores ==
    { [counts |-> c, pregs |-> g, facilities |-> f] :
        c \in [CountedCollections -> 0..MaxCount],
        g \in {[e \in EddValues |-> 0], [e \in EddValues |-> 1]},
        f \in [Regions -> 0..MaxCount] }
    \cup { [EmptyStore EXCEPT !.pregs = g] : g \in [EddValues -> 0..MaxCount] }

\* stores whose pregnancy collection is about as large as the limit of the
\* query, all due in March or April 2024
LargeStores ==
    UNION { { [EmptyStore EXCEPT !.pregs =
                 [e \in EddValues |-> IF e = EddMarch THEN a
                                      ELSE IF e = EddApril THEN n - a ELSE 0]] :
              a \in 0..n } :
            n \in (StatsLimit - 1)..MaxPregnancies }

\* the places where a read of get_stats can raise
CountFaults == {"count_patient", "count_pregnancy", "count_visit",
                "count_appointment", "count_alert"}

FaultPoints == CountFaults \cup {"find", "list_collection_names", "aggregate"}

FaultSets == {F \in SUBSET FaultPoints : Cardinality(F) <= MaxFaults}

NoStats ==
    [status |-> 0, faults |-> {}, patients |-> 0, pregnancies |-> 0,
     visits |-> 0, appointments |-> 0, alerts |-> 0, due_this_month |-> 0,
     facilities_by_region |-> {}]

\* the documents of a collection, as the store counts them
Stored(col) ==
    IF col = "pregnancy" THEN Total(snapshot.pregs) ELSE snapshot.counts[col]

count_unprotected(col, faults) ==
    IF ("count_" \o col) \in faults
    THEN [raised |-> TRUE, value |-> 0]
    ELSE [raised |-> FALSE, value |-> Stored(col)]

\* src/main.py get_stats.count: count_documents, 0 when it raises
count(col, faults) ==
    IF ("count_" \o col) \in faults
    THEN [raised |-> FALSE, value |-> 0]
    ELSE [raised |-> FALSE, value |-> Stored(col)]

\* the bags left when k documents are taken out of bag
RECURSIVE Drop(_, _)
Drop(bag, k) ==
    IF k = 0 THEN {bag}
    ELSE UNION { Drop([bag EXCEPT ![e] = @ - 1], k - 1) :
                    e \in {x \in DOMAIN bag : bag[x] > 0} }

\* find({}, ...).limit(200) on the pregnancy collection: at most 200
\* documents; without a sort the store may return any of them
find_limit(bag) ==
    IF Total(bag) <= StatsLimit THEN {bag}
    ELSE Drop(bag, Total(bag) - StatsLimit)

\* datetime.date(): the date of a datetime, a date as it is
date_of(d) == IF d.kind = "datetime" THEN [d EXCEPT !.kind = "date", !.hour = 0] ELSE d

is_due_same_month(edd, day) ==
    \E d \in edd : date_of(d).m = day.m

\* src/main.py get_stats, lines 210-213: edd is set and is in the year and
\* month of date.today()
is_due(edd, day) ==
    \E d \in edd : date_of(d).y = day.y /\ date_of(d).m = day.m

\* the loop over the documents returned
due_this_month(returned, day) ==
    SumOver([e \in DOMAIN returned |-> IF is_due(e, day) THEN returned[e] ELSE 0],
            DOMAIN returned)

\* the facility collection is listed once it holds a document
FacilityListed == Total(snapshot.facilities) > 0

\* $group by region with a count
aggregate_by_region ==
    { [_id |-> r, count |-> snapshot.facilities[r]] :
        r \in {x \in Regions : snapshot.facilities[x] > 0} }

\* src/main.py get_stats; faults are the reads that raise, returned the
\* documents the pregnancy query returns.  The handler writes nothing: a
\* second request would start from the same store, which is another
\* initial state, so a behaviour serves one request.
GetStats ==
    \E faults \in FaultSets, returned \in find_limit(snapshot.pregs) :
        LET abort == [NoStats EXCEPT !.status = 500, !.faults = faults]
            cnt(col) == count(col, faults)
        IN  /\ stats = NoStats
            /\ stats' =
                 IF ~ensure_db THEN [abort EXCEPT !.faults = {}]
                 ELSE IF "find" \in faults THEN abort
                 ELSE IF "list_collection_names" \in faults THEN abort
                 ELSE IF FacilityListed /\ "aggregate" \in faults THEN abort
                 ELSE IF \E col \in CountedCollections \cup {"pregnancy"} :
                            cnt(col).raised THEN abort
                 ELSE [ status |-> 200,
                        faults |-> faults,
                        patients |-> cnt("patient").value,
                        pregnancies |-> cnt("pregnancy").value,
                        visits |-> cnt("visit").value,
                        appointments |-> cnt("appointment").value,
                        alerts |-> cnt("alert").value,
                        due_this_month |-> due_this_month(returned, today),
                        facilities_by_region |->
                            IF FacilityListed THEN aggregate_by_region ELSE {} ]
            /\ UNCHANGED <<admissionVars, snapshot, today>>

StatsInit ==
    /\ dbSet \in BOOLEAN
    /\ utcDate = Calendar[1]
    /\ patient = {} /\ pregnancy = {} /\ visit = {}
    /\ appointment = {} /\ alert = {}
    /\ nextOid = FirstOid
    /\ inflight = {}
    /\ nreq = 0
    /\ resp = NoRequest
    /\ snapshot \in IF dbSet THEN SmallStores \cup LargeStores ELSE {EmptyStore}
    /\ today \in {Months[i] : i \in 1..Len(Months)}
    /\ stats = NoStats

StatsNext == GetStats

StatsSpec == StatsInit /\ [][StatsNext]_vars

-----------------------------------------------------------------------------
(* The endpoints *)

CreatePatient ==
    \E p \in PatientPayloads, r \in RandValues, fault \in BOOLEAN :
        Receive("create_patient", p, r, fault)

CreatePregnancy ==
    \E p \in PregnancyPayloads, fault \in BOOLEAN :
        Receive("create_pregnancy", p, 0, fault)

CreateVisit ==
    \E p \in VisitPayloads, fault \in BOOLEAN :
        Receive("create_visit", p, 0, fault)

CreateAppointment ==
    \E p \in AppointmentPayloads, fault \in BOOLEAN :
        Receive("create_appointment", p, 0, fault)

CreateAlert ==
    \E p \in AlertPayloads, fault \in BOOLEAN :
        Receive("create_alert", p, 0, fault)

\* a parked handler makes its next store call (the insert)
Resume ==
    \E q \in inflight, fault \in BOOLEAN :
        /\ Commit(q, Run(q, FALSE, 0, fault))
        /\ UNCHANGED <<dbSet, utcDate, nreq, statsVars>>

\* midnight UTC passes
Tick ==
    /\ \E i \in 1..(Len(Calendar) - 1) :
          utcDate = Calendar[i] /\ utcDate' = Calendar[i + 1]
    /\ UNCHANGED <<dbSet, collections, nextOid, inflight, nreq, resp, statsVars>>

Init ==
    /\ dbSet \in BOOLEAN
    /\ utcDate = Calendar[1]
    /\ patient = {} /\ pregnancy = {} /\ visit = {}
    /\ appointment = {} /\ alert = {}
    /\ nextOid = FirstOid
    /\ inflight = {}
    /\ nreq = 0
    /\ resp = NoRequest
    /\ snapshot = EmptyStore
    /\ today = Months[1]
    /\ stats = NoStats

Next ==
    \/ CreatePatient
    \/ CreatePregnancy
    \/ CreateVisit
    \/ CreateAppointment
    \/ CreateAlert
    \/ Resume
    \/ Tick

Spec == Init /\ [][Next]_vars

-----------------------------------------------------------------------------
(* Properties of the admission pipeline *)

Admissions ==
    {"create_patient", "create_pregnancy", "create_visit",
     "create_appointment", "create_alert"}

\* this step sent the response of a request
Responded == resp'.rid # resp.rid

\* every _id in the store
AllIds == {d._id : d \in patient \cup pregnancy \cup visit \cup appointment \cup alert}

\* the documents of coll the identifier string s resolves to
Resolves(coll, s) ==
    IF ObjectIdValid(s) THEN find_one(coll, ObjectId(s)) ELSE {}

\* C1 (state): every pregnancy document's patient_id is the storage id of a
\* stored patient: it parses to the _id of a document of the patient
\* collection
C1_ReferentialIntegrity ==
    \A g \in pregnancy : Resolves(patient, g.patient_id) # {}

\* C1 (state): a schema-valid POST /pregnancies whose well-formed patient_id
\* matched no stored patient, the store being connected and having
\* answered the lookup, was answered 404
C1_NotFound ==
    ( /\ resp.op = "create_pregnancy"
      /\ PregnancyValid(resp.payload)
      /\ dbSet /\ ~resp.raised
      /\ ObjectIdValid(RefOf(resp.op, resp.payload))
      /\ Resolves(patient, RefOf(resp.op, resp.payload)) = {} )
    => resp.status = 404

\* C1: in every reachable state every pregnancy document refers to a stored
\* patient, a POST /pregnancies whose well-formed patient_id matches no
\* stored patient is answered 404, and the step that answers a
\* POST /pregnancies whose patient_id matches no stored patient adds no
\* pregnancy document
C1_PregnancyRefersToPatient ==
    /\ [](C1_ReferentialIntegrity /\ C1_NotFound)
    /\ [][ ( /\ Responded
             /\ resp'.op = "create_pregnancy"
             /\ resp'.payload.patient_id # {}
             /\ Resolves(patient, RefOf(resp'.op, resp'.payload)) = {} )
           => pregnancy' = pregnancy ]_vars

\* C1 witness: a pregnancy was admitted for a stored patient, and the last
\* POST /pregnancies named a well-formed id no patient has and got 404
C1_Witness ==
    /\ pregnancy # {}
    /\ resp.op = "create_pregnancy" /\ resp.status = 404
    /\ resp.payload.patient_id = {OidStr(UnknownOid)}

\* C2 (state): every visit document's pregnancy_id is the storage id of a
\* stored pregnancy, whose patient_id is the storage id of a stored patient
C2_ReferentialIntegrity ==
    \A v \in visit :
        \E g \in Resolves(pregnancy, v.pregnancy_id) :
            Resolves(patient, g.patient_id) # {}

\* C2: in every reachable state every visit document refers to a stored
\* pregnancy (and through it to a stored patient), and the step that
\* answers a POST /visits whose pregnancy_id matches no stored pregnancy
\* adds no visit document
C2_VisitRefersToPregnancy ==
    /\ []C2_ReferentialIntegrity
    /\ [][ ( /\ Responded
             /\ resp'.op = "create_visit"
             /\ resp'.payload.pregnancy_id # {}
             /\ Resolves(pregnancy, RefOf(resp'.op, resp'.payload)) = {} )
           => visit' = visit ]_vars

\* C2 witness: a visit is stored for a pregnancy whose patient_id was sent
\* in upper case
C2_Witness ==
    /\ visit # {}
    /\ \E g \in pregnancy : g.patient_id = UpperCase(OidStr(FirstOid))

\* C3: for POST /pregnancies and POST /visits with the store available
\* (ensure_db passes) and a schema-valid payload: a malformed identifier
\* yields 400 and never 404; a well-formed identifier with no matching
\* parent, the lookup answered, yields 404 and never 400; the insert is
\* reached only for a well-formed identifier that matches a stored parent;
\* and 400 is returned only when the identifier is malformed
C3_OutcomeByReferenceAlone ==
    ( /\ resp.op \in {"create_pregnancy", "create_visit"}
      /\ dbSet
      /\ Valid(resp.op, resp.payload) )
    => LET ref    == RefOf(resp.op, resp.payload)
           parent == IF resp.op = "create_visit" THEN pregnancy ELSE patient
       IN  /\ ~ObjectIdValid(ref) => resp.status = 400
           /\ (ObjectIdValid(ref) /\ Resolves(parent, ref) = {} /\ ~resp.raised)
                 => resp.status = 404
           /\ (\E i \in 1..Len(resp.trace) : resp.trace[i] = "insert")
                 => Resolves(parent, ref) # {}
           /\ resp.status = 400 => ~ObjectIdValid(ref)

\* C4 as claimed: with the store unset every request to a mutating
\* endpoint, whatever its payload, is answered 500
C4_AlwaysStoreUnavailable ==
    (~dbSet /\ resp.op \in Admissions) => resp.status = 500

\* C4 as amended: with the store unset, a schema-valid payload is answered
\* 500 by ensure_db, the first statement of the handler, before any parse,
\* lookup or insert, and a schema-invalid payload is answered 422 by the
\* validation that precedes the handler; nothing is stored
C4_StoreUnavailableAfterValidation ==
    (~dbSet /\ resp.op \in Admissions)
    => /\ IF Valid(resp.op, resp.payload)
          THEN /\ resp.status = 500
               /\ resp.trace = <<"validate", "ensure_db">>
               /\ ~resp.raised
          ELSE /\ resp.status = 422
               /\ resp.trace = <<"validate">>
       /\ AllIds = {}

\* C4 witness: the store is unset and a schema-valid visit with a malformed
\* pregnancy_id got 500
C4_Witness ==
    /\ ~dbSet
    /\ resp.op = "create_visit" /\ resp.status = 500
    /\ resp.payload.pregnancy_id = {<<"a","b","c">>}

\* the vitals ranges of the Visit record
VitalOutOfRange(v) ==
    \/ \E x \in v.blood_pressure_systolic : x < 50 \/ x > 250
    \/ \E x \in v.blood_pressure_diastolic : x < 30 \/ x > 150
    \/ \E x \in v.weight_kg : x < 20 \/ x > 250
    \/ \E x \in v.fundal_height_cm : x < 0 \/ x > 60
    \/ \E x \in v.foetal_heart_rate : x < 60 \/ x > 200

\* C5: a POST /visits with a vital outside its range is rejected at
\* validation with a 4xx status; its handler never runs, so neither the
\* pregnancy lookup nor the insert is executed, and the step leaves the
\* visit collection unchanged
C5_VitalsRejectedAtValidation ==
    /\ []( ( /\ resp.op = "create_visit"
             /\ VitalOutOfRange(resp.payload.vitals) )
           => /\ resp.status \in 400..499
              /\ resp.trace = <<"validate">> )
    /\ [][ ( /\ Responded
             /\ resp'.op = "create_visit"
             /\ VitalOutOfRange(resp'.payload.vitals) )
           => /\ visit' = visit
              /\ inflight' = inflight ]_vars

\* C5 witness: the pregnancy the visit names is stored, and the visit was
\* refused for a systolic pressure of 251
C5_Witness ==
    /\ resp.op = "create_visit" /\ resp.status = 422
    /\ resp.payload.vitals.blood_pressure_systolic = {251}
    /\ dbSet
    /\ Resolves(pregnancy, RefOf(resp.op, resp.payload)) # {}

\* C6: a step changes a collection only when it sends the 200 response of
\* its request, and then it inserts one document into one collection: an
\* admission that ends in any failure changed nothing; and no statement of
\* a handler runs twice
C6_FailureLeavesStoreUnchanged ==
    /\ [][ collections' # collections
           => /\ Responded
              /\ resp'.status = 200
              /\ Cardinality(AllIds') = Cardinality(AllIds) + 1 ]_vars
    /\ [][ (Responded /\ resp'.status # 200)
           => collections' = collections ]_vars
    /\ [](\A i, j \in 1..Len(resp.trace) :
              resp.trace[i] = resp.trace[j] => i = j)

\* C6 witness: each kind of failure was answered with documents in the
\* store (here: not-found, with a patient stored)
C6_Witness ==
    /\ patient # {}
    /\ resp.op = "create_visit" /\ resp.status = 404

\* the shape MGU-YYYYMMDD-NNNNNN, the eight digits being date
MaterguiFormat(s, date) ==
    /\ Len(s) = 19
    /\ SubSeq(s, 1, 4) = <<"M","G","U","-">>
    /\ \A i \in 5..12 : IsDecDigit(s[i])
    /\ SubSeq(s, 5, 8) = ZeroPad(DecStr(date.y), 4)
    /\ SubSeq(s, 9, 10) = ZeroPad(DecStr(date.m), 2)
    /\ SubSeq(s, 11, 12) = ZeroPad(DecStr(date.d), 2)
    /\ s[13] = "-"
    /\ \A i \in 14..19 : IsDecDigit(s[i])

\* C7: when POST /patients succeeds for a payload without a public
\* identifier, the matergui_id returned is the matergui_id of the patient
\* document stored under the returned id, and it is MGU-, the UTC date of
\* the request as YYYYMMDD, a dash and six decimal digits
C7_GeneratedPublicId ==
    [][ ( /\ Responded
          /\ resp'.op = "create_patient"
          /\ resp'.status = 200
          /\ resp'.payload.matergui_id = {} )
        => /\ \E m \in resp'.data : MaterguiFormat(m, utcDate)
           /\ \E i \in resp'.id : \E d \in patient' :
                 /\ d._id = ObjectId(i)
                 /\ d \notin patient
                 /\ resp'.data = {d.matergui_id} ]_vars

\* C7 witness: a patient was admitted without a public identifier on the
\* second day
C7_Witness ==
    /\ resp.op = "create_patient" /\ resp.status = 200
    /\ resp.payload.matergui_id = {}
    /\ utcDate = Calendar[2]
    /\ resp.data = {generate_matergui_id(Calendar[2], 42)}

\* C8: every successful POST /patients adds exactly one patient document
\* under a storage id no document had, also when a document with the same
\* fields is already stored; storage ids are never shared
C8_PatientsNotIdempotent ==
    /\ [][ ( /\ Responded
             /\ resp'.op = "create_patient"
             /\ resp'.status = 200 )
           => /\ Cardinality(patient') = Cardinality(patient) + 1
              /\ \E i \in resp'.id :
                    /\ ObjectId(i) \notin AllIds
                    /\ patient' \ patient =
                         {[_id |-> ObjectId(i),
                           first_name |-> resp'.payload.first_name,
                           last_name |-> resp'.payload.last_name,
                           matergui_id |-> CHOOSE m \in resp'.data : TRUE]} ]_vars
    /\ [](Cardinality(AllIds) =
            Cardinality(patient) + Cardinality(pregnancy) + Cardinality(visit)
            + Cardinality(appointment) + Cardinality(alert))

\* C8 witness: the same payload, public identifier included, was admitted
\* twice and is stored as two documents
C8_Witness ==
    \E d, e \in patient :
        /\ d._id # e._id
        /\ d.first_name = e.first_name /\ d.last_name = e.last_name
        /\ d.matergui_id = e.matergui_id
        /\ d.matergui_id = <<"X","-","1">>

-----------------------------------------------------------------------------
(* Properties of GET /stats *)

Answered == stats.status # 0

CountField(col) ==
    CASE col = "patient"     -> stats.patients
      [] col = "pregnancy"   -> stats.pregnancies
      [] col = "visit"       -> stats.visits
      [] col = "appointment" -> stats.appointments
      [] col = "alert"       -> stats.alerts

\* C9 as claimed: with the store connection established the request always
\* returns a complete response, a read that failed giving zero or empty for
\* the fields derived from it
C9_EveryFieldDegrades ==
    (dbSet /\ Answered)
    => /\ stats.status = 200
       /\ \A col \in CountedCollections \cup {"pregnancy"} :
             ("count_" \o col) \in stats.faults => CountField(col) = 0
       /\ "find" \in stats.faults => stats.due_this_month = 0
       /\ stats.faults \cap {"list_collection_names", "aggregate"} # {}
             => stats.facilities_by_region = {}

\* C9 as amended: with the store connection established, the five counts
\* are computed independently, a count that fails being reported as 0 and
\* the others as stored, and count failures never abort the report; the
\* request fails with 500 exactly when the pregnancy query, the collection
\* listing or the facility aggregation fails
C9_CountsDegradeOtherReadsAbort ==
    (dbSet /\ Answered)
    => LET fatal == \/ "find" \in stats.faults
                    \/ "list_collection_names" \in stats.faults
                    \/ (FacilityListed /\ "aggregate" \in stats.faults)
       IN  /\ stats.status = IF fatal THEN 500 ELSE 200
           /\ stats.status = 200 =>
                 /\ \A col \in CountedCollections \cup {"pregnancy"} :
                       CountField(col) =
                          IF ("count_" \o col) \in stats.faults
                          THEN 0 ELSE Stored(col)
                 /\ stats.facilities_by_region =
                       { [_id |-> r, count |-> snapshot.facilities[r]] :
                           r \in {x \in Regions : snapshot.facilities[x] > 0} }

\* C9 witness: counting the patients failed, the report was sent with 0
\* patients although one is stored, and the visit count is the stored one
C9_Witness ==
    /\ dbSet /\ stats.status = 200
    /\ "count_patient" \in stats.faults
    /\ snapshot.counts["patient"] > 0 /\ stats.patients = 0
    /\ snapshot.counts["visit"] > 0 /\ stats.visits = snapshot.counts["visit"]

\* the pregnancy documents whose expected_due_date is in the year and month
\* of today, over the whole collection
NumberDue ==
    SumOver([e \in EddValues |->
                IF \E d \in e : d.y = today.y /\ d.m = today.m
                THEN snapshot.pregs[e] ELSE 0], EddValues)

\* C10 as claimed: due_this_month is the number of all pregnancy documents
\* due in the current month, whatever the size of the collection
C10_DueCountsWholeCollection ==
    stats.status = 200 => stats.due_this_month = NumberDue

\* C10 as amended: due_this_month is the number of documents due in the
\* current year and month among the at most 200 documents the pregnancy
\* query returns: it is the count over the whole collection when the
\* collection holds at most 200 documents, and otherwise falls short of it
\* by at most the number of documents beyond 200; documents without an
\* expected_due_date are not counted, and an empty store gives 0
C10_DueCountsFirstTwoHundred ==
    stats.status = 200
    => LET n == Total(snapshot.pregs) IN
       /\ n <= StatsLimit => stats.due_this_month = NumberDue
       /\ n > StatsLimit =>
             /\ stats.due_this_month <= NumberDue
             /\ stats.due_this_month >= NumberDue - (n - StatsLimit)
             /\ stats.due_this_month <= StatsLimit

\* C10 witness: the collection holds exactly 200 pregnancies, all due this
\* month, and 200 are reported
C10_Witness ==
    /\ stats.status = 200
    /\ Total(snapshot.pregs) = StatsLimit
    /\ NumberDue = StatsLimit
    /\ stats.due_this_month = StatsLimit

====
